---- MODULE Spec2Model ----
(***************************************************************************)
(* Model of the ride pooling dispatcher (ridepooling.pooling.Pooling,      *)
(* ridepooling.vehicle.Vehicle, ridepooling.request.Request).              *)
(*                                                                         *)
(* Timestamps are whole minutes since an arbitrary origin, a timedelta is  *)
(* an integer number of minutes.  A pandas DataFrame is a sequence of row  *)
(* records; the field idx of a row is its index label.  The column         *)
(* max_delay is written once (request.delay_max) and never read, it is     *)
(* left out of the rows.                                                   *)
(***************************************************************************)
EXTENDS Integers, Sequences, FiniteSets, TLC

\* ------------------------------------------------------------------ bounds
\* Longest request list handed to Pooling.
MaxRequests == 3

\* ------------------------------------------------------- program constants
\* timedelta.seconds // 60 lies in 0 .. 1439: the days of a timedelta are a
\* separate component, which the code never reads.
MinutesPerDay == 1440
\* Minutes added to the largest travel time to get the replanning window.
WindowSlack == 5

\* ------------------------------------------------------------------ inputs
Stations == {"X", "Y"}
Passangers == {1, 2}
StartTimes == {0, 15, 30}

\* Travel time and distance tables (waytime.csv, distance.csv).
WaytimeTown == [a \in Stations |-> [b \in Stations |-> IF a = b THEN 0 ELSE 10]]
WaytimeFar ==
    [a \in Stations |-> [b \in Stations |->
        IF a = b THEN 0 ELSE IF a = "X" THEN 10 ELSE 1425]]
DistanceTown == [a \in Stations |-> [b \in Stations |-> IF a = b THEN 0 ELSE 4]]

\* cfg_dict["weights"] of the scenario file.
WeightsEqual ==
    [delay_factor |-> 1, balance_factor |-> 1, pooling_factor |-> 1,
     distance_factor |-> 1, delay_max |-> 5, standing_time |-> 1]

\* A scenario: the seats of the vehicles of vehicle_list in list order, the
\* two tables and the weights.
Scenarios ==
    { [seats |-> <<1>>, waytime |-> WaytimeTown, distance |-> DistanceTown,
       weights |-> WeightsEqual],
      [seats |-> <<2, 2>>, waytime |-> WaytimeTown, distance |-> DistanceTown,
       weights |-> WeightsEqual] }

\* A scenario whose table holds a travel time of almost a day.
ScenariosFar ==
    { [seats |-> <<2>>, waytime |-> WaytimeFar, distance |-> DistanceTown,
       weights |-> WeightsEqual] }

\* A scenario with a standing time above the slack of the window.
WaytimeNear == [a \in Stations |-> [b \in Stations |-> IF a = b THEN 0 ELSE 9]]
WeightsSlow == [WeightsEqual EXCEPT !.standing_time = 7]
ScenariosSlow ==
    { [seats |-> <<2>>, waytime |-> WaytimeNear, distance |-> DistanceTown,
       weights |-> WeightsSlow] }

\* A scenario with a delay_max that no delay of whole minutes within a day
\* exceeds, and seats for the largest request.
WeightsPatient == [WeightsEqual EXCEPT !.delay_max = 1440]
ScenariosPatient ==
    { [seats |-> <<2>>, waytime |-> WaytimeTown, distance |-> DistanceTown,
       weights |-> WeightsPatient] }

\* A scenario with an empty vehicle_list.
ScenariosEmpty ==
    { [seats |-> <<>>, waytime |-> WaytimeTown, distance |-> DistanceTown,
       weights |-> WeightsEqual] }

\* Scenarios in which one factor is the only weight that is not 0.
WeightsPooling ==
    [WeightsEqual EXCEPT !.delay_factor = 0, !.balance_factor = 0,
                         !.distance_factor = 0]
WeightsDistance ==
    [WeightsEqual EXCEPT !.delay_factor = 0, !.balance_factor = 0,
                         !.pooling_factor = 0]
ScenariosOneFactor ==
    { [seats |-> <<2, 2>>, waytime |-> WaytimeTown, distance |-> DistanceTown,
       weights |-> WeightsPooling],
      [seats |-> <<2, 2>>, waytime |-> WaytimeTown, distance |-> DistanceTown,
       weights |-> WeightsDistance] }

\* A scenario with two vehicles and a travel time longer than the distance
\* between two start times.
WaytimeLong == [a \in Stations |-> [b \in Stations |-> IF a = b THEN 0 ELSE 20]]
ScenariosLong ==
    { [seats |-> <<2, 2>>, waytime |-> WaytimeLong, distance |-> DistanceTown,
       weights |-> WeightsEqual] }

\* A scenario with a third station Z between X and Y: the distance table
\* holds a way from X to Y through Z that is shorter than the direct one.
StationsShortcut == Stations \cup {"Z"}
WaytimeShortcut ==
    [a \in StationsShortcut |-> [b \in StationsShortcut |->
        IF a = b THEN 0
        ELSE IF {a, b} = {"X", "Y"} THEN 10
        ELSE IF {a, b} = {"X", "Z"} THEN 4 ELSE 5]]
DistanceShortcut ==
    [a \in StationsShortcut |-> [b \in StationsShortcut |->
        IF a = b THEN 0 ELSE IF {a, b} = {"X", "Y"} THEN 10 ELSE 1]]
ScenariosShortcut ==
    { [seats |-> <<2>>, waytime |-> WaytimeShortcut,
       distance |-> DistanceShortcut, weights |-> WeightsEqual] }

VARIABLES
    seats,                 \* Vehicle.seats of vehicle_list[v]
    waytime,               \* waytime table
    distance,              \* Pooling.distance
    weights,               \* cfg_dict["weights"]
    len_request_list,      \* len(request_list)
    request_list,          \* the requests the loop has taken so far, in order
    counter,               \* Pooling.__init__: counter
    schedule,              \* Vehicle.schedule of vehicle_list[v]
    requests_denied_list,  \* Pooling.requests_denied_list
    pc                     \* "loop", "done" (loop left) or "error" (exception)

vars ==
    <<seats, waytime, distance, weights, len_request_list, request_list,
      counter, schedule, requests_denied_list, pc>>

Vehicles == 1..Len(seats)

\* The rows of a schedule frame (all columns but max_delay) with their labels.
Rows ==
    [idx : Nat, station : DOMAIN waytime, boarding : Int, promissed_time : Int,
     request_id : Nat, planed : Int, delay : Nat, occupation : Int]

\* The state: the inputs of Pooling.__init__, the schedule of every vehicle,
\* the denied list and the position in the loop over request_list.
TypeOK ==
    /\ seats \in Seq(Nat)
    /\ len_request_list \in 0..MaxRequests
    /\ counter \in 0..len_request_list
    /\ Len(request_list) = counter
    /\ DOMAIN schedule = 1..Len(seats)
    /\ \A v \in 1..Len(seats) : \A k \in 1..Len(schedule[v]) :
           schedule[v][k] \in Rows
    /\ Len(requests_denied_list) <= counter
    /\ pc \in {"loop", "done", "error"}

\* ----------------------------------------------------------------- helpers
Max(S) == CHOOSE x \in S : \A y \in S : y <= x
Min(S) == CHOOSE x \in S : \A y \in S : x <= y

RECURSIVE SumSeq(_)
SumSeq(s) == IF s = <<>> THEN 0 ELSE Head(s) + SumSeq(Tail(s))

\* A sequence given by a function on 1..n, as the tuple of its elements.
Tuple(s) == s \o <<>>

Column(frame, field) == Tuple([k \in 1..Len(frame) |-> frame[k][field]])
ColumnSet(frame, field) == {frame[k][field] : k \in 1..Len(frame)}
Index(frame) == ColumnSet(frame, "idx")

\* The row of a frame with a given index label (DataFrame.at[label, ...]).
RowAt(frame, label) == frame[CHOOSE k \in 1..Len(frame) : frame[k].idx = label]

\* DataFrame.set_index with the labels first, first + 1, ...
SetIndexFrom(frame, first) ==
    Tuple([k \in 1..Len(frame) |-> [frame[k] EXCEPT !.idx = first + k - 1]])

\* DataFrame.sort_index: the rows in ascending order of their (distinct) labels.
RECURSIVE SortIndex(_)
SortIndex(frame) ==
    IF frame = <<>>
    THEN <<>>
    ELSE LET least == Min(Index(frame))
         IN  <<RowAt(frame, least)>>
                 \o SortIndex(SelectSeq(frame, LAMBDA row : row.idx # least))

\* Request: the request_id is the position in request_list, waytime is the
\* direct travel time and delay_max is weights.delay_max (Simulation.from_csv,
\* Demand_calculation.create_synthetic_demand); status is set to True.
Request(id, start, destination, start_time, passangers) ==
    [request_id |-> id, start |-> start, destination |-> destination,
     start_time |-> start_time, passangers |-> passangers,
     waytime |-> waytime[start][destination], status |-> TRUE]

\* Request.accept_status: the status becomes the decision.  Pooling never
\* calls it.
accept_status(request, decision) == [request EXCEPT !.status = decision]

\* Pooling.waytime_max
waytime_max == Max({waytime[a][b] : a, b \in DOMAIN waytime})

\* int((planed - promissed_time).seconds // 60)
DelayMinutes(planed, promissed_time) == (planed - promissed_time) % MinutesPerDay

\* ------------------------------------------------ Pooling.calculating_distance
\* Sum of distance[station(i)][station(i + 1)] over the labels i of the frame
\* other than the largest one.
calculating_distance(frame) ==
    LET legs ==
            [k \in 1..Len(frame) |->
                IF frame[k].idx = Max(Index(frame))
                THEN 0
                ELSE distance[frame[k].station]
                             [RowAt(frame, frame[k].idx + 1).station]]
    IN  SumSeq(legs)

\* ----------------------------------------- Pooling.creating_possible_schedules
\* vehicle.schedule.loc[vehicle.schedule["planed"] > request.start_time
\*                      - timedelta(minutes = waytime_max + 5)]
RelevantSchedule(v, request) ==
    SelectSeq(schedule[v],
              LAMBDA row : row.planed
                              > request.start_time - (waytime_max + WindowSlack))

start_frame(request) ==
    [idx |-> 1, station |-> request.start, boarding |-> request.passangers,
     promissed_time |-> request.start_time, request_id |-> request.request_id,
     planed |-> request.start_time, delay |-> 0,
     occupation |-> request.passangers]

\* Mutant of destination_frame: boarding holds the passengers with their sign
\* lost.
destination_frame_boards(request) ==
    [idx |-> 2, station |-> request.destination,
     boarding |-> request.passangers,
     promissed_time |->
         request.start_time + request.waytime + weights.standing_time,
     request_id |-> request.request_id, planed |-> request.start_time,
     delay |-> 0, occupation |-> -request.passangers]

\* Mutant of destination_frame: the promised time leaves out the standing
\* time.
destination_frame_no_standing(request) ==
    [idx |-> 2, station |-> request.destination,
     boarding |-> -request.passangers,
     promissed_time |-> request.start_time + request.waytime,
     request_id |-> request.request_id, planed |-> request.start_time,
     delay |-> 0, occupation |-> -request.passangers]

destination_frame(request) ==
    [idx |-> 2, station |-> request.destination,
     boarding |-> -request.passangers,
     promissed_time |->
         request.start_time + request.waytime + weights.standing_time,
     request_id |-> request.request_id, planed |-> request.start_time,
     delay |-> 0, occupation |-> -request.passangers]

\* An entry of schedule_dictionary (the score fields are computed from these).
Entry(v, delay_old, distance_old, frame) ==
    [vehicle |-> v, delay_old |-> delay_old, distance_old |-> distance_old,
     schedule |-> frame, balance |-> Len(schedule[v])]

\* The two nested while loops: the pairs (start_loop, destination_loop) in the
\* order in which their entries are added.
RECURSIVE InsertionLoops(_, _, _)
InsertionLoops(start_loop, destination_loop, limit) ==
    IF ~(start_loop < limit)
    THEN <<>>
    ELSE IF ~(destination_loop < limit)
         THEN InsertionLoops(start_loop + 3, start_loop + 3 + 1, limit)
         ELSE <<<<start_loop, destination_loop>>>>
                  \o InsertionLoops(start_loop, destination_loop + 3, limit)

\* Mutant of InsertedSchedule: the two new rows take each other's label.
InsertedSchedule_swapped(window3, request, start_loop, destination_loop, first) ==
    SetIndexFrom(
        SortIndex(window3
                    \o <<[start_frame(request) EXCEPT !.idx = destination_loop],
                         [destination_frame(request) EXCEPT
                              !.idx = start_loop]>>),
        first)

\* Mutant of InsertedSchedule: schedule_1 is relabelled from 1, not from
\* index_final_start.
InsertedSchedule_from_one(window3, request, start_loop, destination_loop, first) ==
    SetIndexFrom(
        SortIndex(window3
                    \o <<[start_frame(request) EXCEPT !.idx = start_loop],
                         [destination_frame(request) EXCEPT
                              !.idx = destination_loop]>>),
        1)

\* schedule_1: the window with the two new rows at their labels, sorted by
\* label and relabelled from index_final_start.
InsertedSchedule(window3, request, start_loop, destination_loop, first) ==
    SetIndexFrom(
        SortIndex(window3
                    \o <<[start_frame(request) EXCEPT !.idx = start_loop],
                         [destination_frame(request) EXCEPT
                              !.idx = destination_loop]>>),
        first)

\* The body of the loop over vehicle_list for one vehicle: the entries it adds
\* and whether it leaves the loop with break.
VehicleEntries(v, request) ==
    LET window == RelevantSchedule(v, request)
    IN  IF Len(window) = 0
        THEN [break |-> FALSE,
              entries |->
                 <<Entry(v, 0, 0,
                         SetIndexFrom(<<start_frame(request),
                                        destination_frame(request)>>,
                                      Len(schedule[v]) + 1))>>]
        ELSE LET index_final_start == Min(Index(window))
                 delay_old == SumSeq(Column(window, "delay"))
                 distance_old == calculating_distance(window)
                 window3 ==
                     Tuple([k \in 1..Len(window) |->
                               [window[k] EXCEPT !.idx = k * 3]])
                 index_relevant ==
                     {window3[k].idx : k \in
                         {j \in 1..Len(window3) :
                             window3[j].promissed_time
                                 < request.start_time + request.waytime
                                     + weights.delay_max}}
             IN  IF index_relevant = {}
                 THEN [break |-> TRUE, entries |-> <<>>]
                 ELSE LET loops ==
                              InsertionLoops(1, 2, Max(index_relevant) + 3)
                      IN  [break |-> FALSE,
                           entries |->
                              Tuple([k \in 1..Len(loops) |->
                                  Entry(v, delay_old, distance_old,
                                        InsertedSchedule(window3, request,
                                                         loops[k][1],
                                                         loops[k][2],
                                                         index_final_start))])]

\* for vehicle in vehicle_list, from vehicle v on: a break ends the loop, the
\* entries of the vehicles before it stay in the dictionary.
RECURSIVE VehicleLoop(_, _)
VehicleLoop(v, request) ==
    IF v > Len(seats)
    THEN <<>>
    ELSE LET body == VehicleEntries(v, request)
         IN  IF body.break
             THEN <<>>
             ELSE body.entries \o VehicleLoop(v + 1, request)

creating_possible_schedules(request) == VehicleLoop(1, request)

\* ---------------------------------------------- Pooling.check_occupation_delay
\* Mutant of WalkRow: a row is planed at its promised time, whatever the row
\* before it.
WalkRow_as_promissed(row, first, before) ==
    IF first
    THEN [row EXCEPT !.delay = DelayMinutes(row.planed, row.promissed_time)]
    ELSE [row EXCEPT
             !.occupation = before.occupation + row.boarding,
             !.planed = row.promissed_time,
             !.delay = DelayMinutes(row.promissed_time, row.promissed_time)]

\* Mutant of WalkRow: the planed time is counted from the promised time of the
\* row before, not from its planed time.
WalkRow_from_promissed(row, first, before) ==
    IF first
    THEN [row EXCEPT !.delay = DelayMinutes(row.planed, row.promissed_time)]
    ELSE LET planed == before.promissed_time
                          + waytime[before.station][row.station]
                          + weights.standing_time
         IN  [row EXCEPT
                 !.occupation = before.occupation + row.boarding,
                 !.planed = planed,
                 !.delay = DelayMinutes(planed, row.promissed_time)]

\* Mutant of WalkRow: the first row is moved by the standing time at every
\* walk.
WalkRow_first_moves(row, first, before) ==
    IF first
    THEN [row EXCEPT
             !.planed = row.planed + weights.standing_time,
             !.delay = DelayMinutes(row.planed + weights.standing_time,
                                    row.promissed_time)]
    ELSE LET planed == before.planed + waytime[before.station][row.station]
                          + weights.standing_time
         IN  [row EXCEPT
                 !.occupation = before.occupation + row.boarding,
                 !.planed = planed,
                 !.delay = DelayMinutes(planed, row.promissed_time)]

\* Mutant of WalkRow: the standing time is left out of the planed time.
WalkRow_no_standing(row, first, before) ==
    IF first
    THEN [row EXCEPT !.delay = DelayMinutes(row.planed, row.promissed_time)]
    ELSE LET planed == before.planed + waytime[before.station][row.station]
         IN  [row EXCEPT
                 !.occupation = before.occupation + row.boarding,
                 !.planed = planed,
                 !.delay = DelayMinutes(planed, row.promissed_time)]

\* One row of the walk over a schedule: the first row keeps its occupation and
\* its planed time, every later row takes them from the row before it.
WalkRow(row, first, before) ==
    IF first
    THEN [row EXCEPT !.delay = DelayMinutes(row.planed, row.promissed_time)]
    ELSE LET planed == before.planed + waytime[before.station][row.station]
                          + weights.standing_time
         IN  [row EXCEPT
                 !.occupation = before.occupation + row.boarding,
                 !.planed = planed,
                 !.delay = DelayMinutes(planed, row.promissed_time)]

\* for index in schedule.index, from row k on; walked holds the rows done.
RECURSIVE WalkFrom(_, _, _)
WalkFrom(frame, k, walked) ==
    IF k > Len(frame)
    THEN walked
    ELSE WalkFrom(frame, k + 1,
                  Append(walked,
                         WalkRow(frame[k], k = 1,
                                 IF k = 1 THEN frame[k] ELSE walked[k - 1])))

WalkSchedule(frame) == WalkFrom(frame, 1, <<>>)

\* "letting people get out, bevor letting new in": looked at for every row
\* but the first one, against the row after it.
BoardingBeforeLeaving(frame) ==
    \E k \in 2..Len(frame) :
        /\ k + 1 \in 1..Len(frame)
        /\ frame[k].station = frame[k + 1].station
        /\ frame[k].boarding > 0
        /\ frame[k + 1].boarding < 0

\* The entry goes to delete_array.
Deleted(entry) ==
    \/ BoardingBeforeLeaving(entry.schedule)
    \/ Max(ColumnSet(entry.schedule, "delay")) > weights.delay_max
    \/ Max(ColumnSet(entry.schedule, "occupation")) > seats[entry.vehicle]

\* Mutant of check_occupation_delay: the walk works on a copy, the entries
\* that are kept hold their schedules as the enumeration made them.
check_occupation_delay_on_copy(schedule_dictionary) ==
    SelectSeq(schedule_dictionary,
              LAMBDA entry :
                  ~Deleted([entry EXCEPT
                               !.schedule = WalkSchedule(entry.schedule)]))

\* The dictionary with every schedule walked and the deleted entries removed.
check_occupation_delay(schedule_dictionary) ==
    LET checked ==
            Tuple([k \in 1..Len(schedule_dictionary) |->
                [schedule_dictionary[k] EXCEPT
                    !.schedule = WalkSchedule(schedule_dictionary[k].schedule)]])
    IN  SelectSeq(checked, LAMBDA entry : ~Deleted(entry))

\* -------------------------------------------------------- Pooling.calculate_score
\* Scores are quotients of integers; a quotient is the pair <<numerator,
\* denominator>> with a denominator greater than 0.
\* Quotients are kept in lowest terms and compared by their whole parts and
\* remainders, so that no product leaves the range of the integers.
RECURSIVE Gcd(_, _)
Gcd(a, b) == IF b = 0 THEN a ELSE Gcd(b, a % b)
Abs(a) == IF a < 0 THEN -a ELSE a
Reduced(p) ==
    LET g == Gcd(Abs(p[1]), p[2]) IN <<p[1] \div g, p[2] \div g>>
Quot(a, b) == Reduced(IF b < 0 THEN <<-a, -b>> ELSE <<a, b>>)
QAdd(p, q) ==
    LET g == Gcd(p[2], q[2])
    IN  Reduced(<<p[1] * (q[2] \div g) + q[1] * (p[2] \div g),
                  (p[2] \div g) * q[2]>>)
QScale(c, p) == Reduced(<<c * p[1], p[2]>>)
RECURSIVE QLess(_, _)
QLess(p, q) ==
    LET whole_p == p[1] \div p[2]
        whole_q == q[1] \div q[2]
        rest_p == p[1] % p[2]
        rest_q == q[1] % q[2]
    IN  IF whole_p # whole_q
        THEN whole_p < whole_q
        ELSE IF rest_q = 0
             THEN FALSE
             ELSE IF rest_p = 0
                  THEN TRUE
                  ELSE QLess(<<q[2], rest_q>>, <<p[2], rest_p>>)

RECURSIVE QMax(_)
QMax(s) ==
    IF Len(s) = 1
    THEN s[1]
    ELSE LET rest == QMax(Tail(s))
         IN  IF QLess(s[1], rest) THEN rest ELSE s[1]

SeqMax(s) == Max({s[k] : k \in 1..Len(s)})

\* 1 - value / max(values), or 1 when max(values) == 0.
OneMinusShare(value, greatest) ==
    IF greatest = 0 THEN Quot(1, 1) ELSE Quot(greatest - value, greatest)

\* rate / max(pooling_list), or 0 when max(pooling_list) == 0.
PoolingShare(rate, greatest) ==
    IF greatest[1] = 0
    THEN Quot(0, 1)
    ELSE Quot(rate[1] * greatest[2], rate[2] * greatest[1])

\* pooling_rate of an entry: schedule["occupation"].sum() / len(schedule).
pooling_rate(entry) ==
    Quot(SumSeq(Column(entry.schedule, "occupation")), Len(entry.schedule))

delay_list(dict) ==
    Tuple([k \in 1..Len(dict) |->
        SumSeq(Column(dict[k].schedule, "delay")) - dict[k].delay_old])
balance_list(dict) == Tuple([k \in 1..Len(dict) |-> dict[k].balance])
pooling_list(dict) == Tuple([k \in 1..Len(dict) |-> pooling_rate(dict[k])])
distance_list(dict) ==
    Tuple([k \in 1..Len(dict) |->
        calculating_distance(dict[k].schedule) - dict[k].distance_old])

\* score_list: the weighted sum of the four scores of every entry.
score_list(dict) ==
    LET delays == delay_list(dict)
        balances == balance_list(dict)
        poolings == pooling_list(dict)
        distances == distance_list(dict)
        delay_max == SeqMax(delays)
        balance_max == SeqMax(balances)
        pooling_max == QMax(poolings)
        distance_max == SeqMax(distances)
    IN  Tuple([k \in 1..Len(dict) |->
            QAdd(QAdd(QScale(weights.delay_factor,
                             OneMinusShare(delays[k], delay_max)),
                      QScale(weights.balance_factor,
                             OneMinusShare(balances[k], balance_max))),
                 QAdd(QScale(weights.pooling_factor,
                             PoolingShare(poolings[k], pooling_max)),
                      QScale(weights.distance_factor,
                             OneMinusShare(distances[k], distance_max))))])

\* Mutant of index_best_schedule: the last entry with the greatest score.
index_best_schedule_last(scores) ==
    Max({k \in 1..Len(scores) :
            \A j \in 1..Len(scores) : ~QLess(scores[k], scores[j])})

\* score_list.index(max(score_list)): the first entry with the greatest score.
index_best_schedule(scores) ==
    Min({k \in 1..Len(scores) :
            \A j \in 1..Len(scores) : ~QLess(scores[k], scores[j])})

calculate_score(dict) == dict[index_best_schedule(score_list(dict))]

\* ------------------------------------------------------ Vehicle.update_schedule
\* Mutant of update_schedule: the rows outside the new schedule are dropped.
update_schedule_forgets(schedule_old, schedule_new) == schedule_new

\* Mutant of update_schedule: the old rows stay, the new ones are added.
update_schedule_keeps(schedule_old, schedule_new) == schedule_old \o schedule_new

\* pd.concat([self.schedule[~self.schedule.index.isin(schedule_new.index)],
\*            schedule_new])
update_schedule(schedule_old, schedule_new) ==
    SelectSeq(schedule_old, LAMBDA row : row.idx \notin Index(schedule_new))
        \o schedule_new

\* -------------------------------------------------------------- Pooling.__init__
RequestInputs ==
    {Request(counter + 1, start, destination, start_time, passangers) :
        start \in DOMAIN waytime, destination \in DOMAIN waytime,
        start_time \in StartTimes, passangers \in Passangers}

\* The surviving entries for a request in the current state.
schedule_dictionary(request) ==
    check_occupation_delay(creating_possible_schedules(request))

AfterRequest == IF counter + 1 = len_request_list THEN "done" ELSE "loop"

InitIn(scenarios) ==
    /\ \E scenario \in scenarios :
          /\ seats = scenario.seats
          /\ waytime = scenario.waytime
          /\ distance = scenario.distance
          /\ weights = scenario.weights
    /\ len_request_list \in 0..MaxRequests
    /\ request_list = <<>>
    /\ counter = 0
    /\ schedule = [v \in 1..Len(seats) |-> <<>>]
    /\ requests_denied_list = <<>>
    /\ pc = IF len_request_list = 0 THEN "done" ELSE "loop"

Init == InitIn(Scenarios)
InitFar == InitIn(ScenariosFar)
InitSlow == InitIn(ScenariosSlow)
InitPatient == InitIn(ScenariosPatient)
InitEmpty == InitIn(ScenariosEmpty)
InitOneFactor == InitIn(ScenariosOneFactor)
InitLong == InitIn(ScenariosLong)
InitShortcut == InitIn(ScenariosShortcut)

\* The progress line divides by len(request_list) - 1: with a list of one
\* request this raises ZeroDivisionError before the request is looked at.
ProgressError ==
    /\ pc = "loop"
    /\ len_request_list - 1 = 0
    /\ pc' = "error"
    /\ UNCHANGED <<seats, waytime, distance, weights, len_request_list,
                   request_list, counter, schedule, requests_denied_list>>

\* Mutant of Dispatch: the request joins requests_denied_list in both branches.
Dispatch_appends_always(request) ==
    /\ pc = "loop"
    /\ len_request_list - 1 # 0
    /\ \E dict \in {schedule_dictionary(request)} :
          IF Len(dict) # 0
          THEN \E best_schedule \in {calculate_score(dict)} :
                  schedule' =
                      [schedule EXCEPT
                          ![best_schedule.vehicle] =
                              update_schedule(
                                  schedule[best_schedule.vehicle],
                                  best_schedule.schedule)]
          ELSE UNCHANGED schedule
    /\ requests_denied_list' = Append(requests_denied_list, request)
    /\ request_list' = Append(request_list, request)
    /\ counter' = counter + 1
    /\ pc' = AfterRequest
    /\ UNCHANGED <<seats, waytime, distance, weights, len_request_list>>

\* Mutant of Dispatch: the rows of the best entry replace rows in the
\* schedule of every vehicle.
Dispatch_updates_fleet(request) ==
    /\ pc = "loop"
    /\ len_request_list - 1 # 0
    /\ \E dict \in {schedule_dictionary(request)} :
          IF Len(dict) # 0
          THEN \E best_schedule \in {calculate_score(dict)} :
                  /\ schedule' =
                        [v \in Vehicles |->
                            update_schedule(schedule[v],
                                            best_schedule.schedule)]
                  /\ UNCHANGED requests_denied_list
          ELSE /\ requests_denied_list' =
                      Append(requests_denied_list, request)
               /\ UNCHANGED schedule
    /\ request_list' = Append(request_list, request)
    /\ counter' = counter + 1
    /\ pc' = AfterRequest
    /\ UNCHANGED <<seats, waytime, distance, weights, len_request_list>>

\* Mutant of Dispatch: a denied request is put in front of
\* requests_denied_list.
Dispatch_denies_in_front(request) ==
    /\ pc = "loop"
    /\ len_request_list - 1 # 0
    /\ \E dict \in {schedule_dictionary(request)} :
          IF Len(dict) # 0
          THEN \E best_schedule \in {calculate_score(dict)} :
                  /\ schedule' =
                        [schedule EXCEPT
                            ![best_schedule.vehicle] =
                                update_schedule(
                                    schedule[best_schedule.vehicle],
                                    best_schedule.schedule)]
                  /\ UNCHANGED requests_denied_list
          ELSE /\ requests_denied_list' =
                      <<request>> \o requests_denied_list
               /\ UNCHANGED schedule
    /\ request_list' = Append(request_list, request)
    /\ counter' = counter + 1
    /\ pc' = AfterRequest
    /\ UNCHANGED <<seats, waytime, distance, weights, len_request_list>>

\* One pass of the loop for a request: the best entry replaces rows of its
\* vehicle, or the request joins requests_denied_list when no entry is left.
\* The dictionary and the best entry are computed once (a set of one value).
Dispatch(request) ==
    /\ pc = "loop"
    /\ len_request_list - 1 # 0
    /\ \E dict \in {schedule_dictionary(request)} :
          IF Len(dict) # 0
          THEN \E best_schedule \in {calculate_score(dict)} :
                  /\ schedule' =
                        [schedule EXCEPT
                            ![best_schedule.vehicle] =
                                update_schedule(
                                    schedule[best_schedule.vehicle],
                                    best_schedule.schedule)]
                  /\ UNCHANGED requests_denied_list
          ELSE /\ requests_denied_list' =
                      Append(requests_denied_list, request)
               /\ UNCHANGED schedule
    /\ request_list' = Append(request_list, request)
    /\ counter' = counter + 1
    /\ pc' = AfterRequest
    /\ UNCHANGED <<seats, waytime, distance, weights, len_request_list>>

Next ==
    \/ ProgressError
    \/ \E request \in RequestInputs : Dispatch(request)

Spec == Init /\ [][Next]_vars

\* The same dispatcher on the table with the long travel time.
SpecFar == InitFar /\ [][Next]_vars

\* The same dispatcher with the long standing time.
SpecSlow == InitSlow /\ [][Next]_vars

\* The same dispatcher with the delay_max that is never exceeded.
SpecPatient == InitPatient /\ [][Next]_vars

\* The same dispatcher without vehicles.
SpecEmpty == InitEmpty /\ [][Next]_vars

\* The same dispatcher with a single factor that is not 0.
SpecOneFactor == InitOneFactor /\ [][Next]_vars

\* The same dispatcher on the table with the long travel time between the
\* stations and two vehicles.
SpecLong == InitLong /\ [][Next]_vars

\* The same dispatcher on the tables with the third station.
SpecShortcut == InitShortcut /\ [][Next]_vars

\* ------------------------------------------------------------------ claims
\* The rows of request number id in the schedule of vehicle v.
RowsOf(v, id) == SelectSeq(schedule[v], LAMBDA row : row.request_id = id)
Committed(id) == \E v \in Vehicles : Len(RowsOf(v, id)) > 0
Denied(id) ==
    \E k \in 1..Len(requests_denied_list) :
        requests_denied_list[k].request_id = id

\* The entries of one vehicle that pass the checker, whatever the other
\* vehicles hold.
FeasibleOf(v, request) ==
    check_occupation_delay(VehicleEntries(v, request).entries)

\* C1: a request is appended to the denied list exactly when no vehicle of the
\* whole vehicle list has a candidate that passes the feasibility checker;
\* otherwise its stops are committed to exactly one vehicle.
C1_Step ==
    counter' = counter + 1 =>
        LET request == request_list'[counter']
            vehicles_with_rows ==
                {v \in Vehicles :
                    \E k \in 1..Len(schedule'[v]) :
                        schedule'[v][k].request_id = request.request_id}
        IN  IF \A v \in Vehicles : Len(FeasibleOf(v, request)) = 0
            THEN /\ requests_denied_list'
                        = Append(requests_denied_list, request)
                 /\ vehicles_with_rows = {}
            ELSE /\ requests_denied_list' = requests_denied_list
                 /\ Cardinality(vehicles_with_rows) = 1
C1_DeniedIffNoFeasibleCandidate == [][C1_Step]_vars

\* C2: after every request the recorded occupation of every committed stop is
\* at least 0 and at most the seats of its vehicle.
C2_OccupationWithinSeats ==
    \A v \in Vehicles : \A k \in 1..Len(schedule[v]) :
        /\ 0 <= schedule[v][k].occupation
        /\ schedule[v][k].occupation <= seats[v]

\* C3: after every request the recorded occupation of every committed stop is
\* the sum of boarding over all stops of the itinerary up to that stop.
C3_OccupationIsBoardingSum ==
    \A v \in Vehicles : \A k \in 1..Len(schedule[v]) :
        schedule[v][k].occupation
            = SumSeq(Column(SubSeq(schedule[v], 1, k), "boarding"))

\* C4: a request with more passengers than any vehicle has seats is denied
\* and no itinerary changes.
C4_Step ==
    counter' = counter + 1 =>
        LET request == request_list'[counter']
        IN  (\A v \in Vehicles : request.passangers > seats[v]) =>
                /\ requests_denied_list'
                       = Append(requests_denied_list, request)
                /\ schedule' = schedule
C4_CapacityRejection == [][C4_Step]_vars

\* C5: after every request no committed stop is planned more than delay_max
\* whole minutes after its promised time.
C5_DelayWithinMax ==
    \A v \in Vehicles : \A k \in 1..Len(schedule[v]) :
        schedule[v][k].planed - schedule[v][k].promissed_time
            <= weights.delay_max

\* C6: after every request no committed itinerary has a pickup directly
\* followed by a dropoff at the same station, at any position.
C6_NoPickupThenDropoffAtStation ==
    \A v \in Vehicles : \A k \in 1..Len(schedule[v]) - 1 :
        ~(/\ schedule[v][k].station = schedule[v][k + 1].station
          /\ schedule[v][k].boarding > 0
          /\ schedule[v][k + 1].boarding < 0)

\* C7: after every request the pickup of every request present in a committed
\* itinerary stands at a smaller position than its dropoff.
C7_PickupBeforeDropoff ==
    \A v \in Vehicles : \A i, j \in 1..Len(schedule[v]) :
        (/\ schedule[v][i].request_id = schedule[v][j].request_id
         /\ schedule[v][i].boarding > 0
         /\ schedule[v][j].boarding < 0) => i < j

\* A request was inserted around stops of another one: its pickup and its
\* dropoff are in the itinerary with another stop between them.
C7_Witness ==
    \E v \in Vehicles : \E i, j \in 1..Len(schedule[v]) :
        /\ i + 1 < j
        /\ schedule[v][i].request_id = schedule[v][j].request_id
        /\ schedule[v][i].request_id = counter
        /\ schedule[v][i].boarding > 0
        /\ schedule[v][j].boarding < 0

\* C8: Scenario A.  A run on a list of exactly one request with one empty
\* vehicle that has seats for it completes with the itinerary
\* [(X, +p, planned T), (Y, -p, planned T + travel_time + standing_time)],
\* both delays 0, and an empty denied list.
C8_ScenarioA ==
    (len_request_list = 1 /\ Len(seats) = 1 /\ pc # "loop") =>
        /\ pc = "done"
        /\ Len(request_list) = 1
        /\ LET request == request_list[1]
               arrival == request.start_time
                              + waytime[request.start][request.destination]
                              + weights.standing_time
           IN  request.passangers <= seats[1] =>
                   /\ requests_denied_list = <<>>
                   /\ Len(schedule[1]) = 2
                   /\ schedule[1][1].station = request.start
                   /\ schedule[1][1].boarding = request.passangers
                   /\ schedule[1][1].planed = request.start_time
                   /\ schedule[1][1].delay = 0
                   /\ schedule[1][2].station = request.destination
                   /\ schedule[1][2].boarding = -request.passangers
                   /\ schedule[1][2].planed = arrival
                   /\ schedule[1][2].delay = 0

\* C9: for a request list of any length the loop ends normally, having taken
\* every request once; the progress line never aborts the run.
C9_LoopTerminatesNormally ==
    /\ pc # "error"
    /\ pc = "done" =>
          /\ counter = len_request_list
          /\ Len(request_list) = len_request_list
          /\ \A k \in 1..Len(request_list) : request_list[k].request_id = k

\* C10: every processed request is in exactly one of the two terminal states,
\* committed (its stops are in an itinerary) or denied (it is in the denied
\* list); a denied request stays denied and never gets stops, a committed one
\* stays committed and is never denied; when the loop has ended the committed
\* and the denied requests together are all requests.
C10_State ==
    /\ \A id \in 1..counter : Committed(id) # Denied(id)
    /\ \A id \in (counter + 1)..MaxRequests : ~Committed(id) /\ ~Denied(id)
    /\ pc = "done" =>
          Cardinality({id \in 1..counter : Committed(id)})
              + Len(requests_denied_list) = len_request_list
C10_Step ==
    \A id \in 1..counter :
        /\ Denied(id) => Denied(id)' /\ ~Committed(id)'
        /\ Committed(id) => Committed(id)' /\ ~Denied(id)'
C10_TerminalStates == [](C10_State) /\ [][C10_Step]_vars

\* The loop has ended with a denied request and, after it, a committed one
\* on a vehicle that already had stops.
C10_Witness ==
    /\ pc = "done"
    /\ \E d, c \in 1..counter : d < c /\ Denied(d) /\ Committed(c)
    /\ \E v \in Vehicles : Len(schedule[v]) >= 4

\* The station, boarding, promissed_time and request_id of the rows of a
\* frame, in the order of the frame.
Stops(frame) ==
    Tuple([k \in 1..Len(frame) |->
        <<frame[k].station, frame[k].boarding, frame[k].promissed_time,
          frame[k].request_id>>])

\* The request taken in this step is in the denied list after the step.
DeniedInStep ==
    \E k \in 1..Len(requests_denied_list') :
        requests_denied_list'[k].request_id = counter'
\* The request taken in this step has rows in a schedule after the step.
CommittedInStep ==
    \E v \in Vehicles : \E k \in 1..Len(schedule'[v]) :
        schedule'[v][k].request_id = counter'

\* C11: when a request is denied, the itinerary of every vehicle is the same
\* before and after the request, in every field, and the denied list grows
\* by exactly that request.
C11_Step ==
    (counter' = counter + 1 /\ DeniedInStep) =>
        /\ schedule' = schedule
        /\ requests_denied_list'
               = Append(requests_denied_list, request_list'[counter'])
C11_DenialChangesNothing == [][C11_Step]_vars

\* The last request was denied while a vehicle had stops and a window that
\* is not empty.
C11_Witness ==
    /\ counter >= 2
    /\ Denied(counter)
    /\ \E v \in Vehicles :
          Len(SelectSeq(schedule[v],
                        LAMBDA row : row.planed
                            > request_list[counter].start_time
                                  - (waytime_max + WindowSlack))) > 0

\* C12: itineraries only grow.  A commit makes the itinerary of one vehicle
\* longer by exactly 2; every stop that was there is still there with the
\* same station, boarding, promised time and request, in the same order; no
\* step removes a stop or holds one twice.
C12_Step ==
    counter' = counter + 1 =>
        /\ \A v \in Vehicles :
              /\ Stops(SelectSeq(schedule'[v],
                                 LAMBDA row : row.request_id # counter'))
                     = Stops(schedule[v])
              /\ Len(schedule'[v]) \in {Len(schedule[v]), Len(schedule[v]) + 2}
        /\ CommittedInStep =>
              Cardinality({v \in Vehicles :
                              Len(schedule'[v]) = Len(schedule[v]) + 2}) = 1
        /\ ~CommittedInStep => schedule' = schedule
C12_ItinerariesOnlyGrow == [][C12_Step]_vars

\* The last request was committed into the middle of an itinerary: stops of
\* an earlier request stand before and after its pickup.
C12_Witness ==
    \E v \in Vehicles : \E i, j, k \in 1..Len(schedule[v]) :
        /\ i < j /\ j < k
        /\ schedule[v][j].request_id = counter
        /\ schedule[v][j].boarding > 0
        /\ schedule[v][i].request_id < counter
        /\ schedule[v][k].request_id < counter

\* C13: conservation.  After every request the boardings of every itinerary
\* add up to zero: as many passengers were set down as were picked up.
C13_Conservation ==
    \A v \in Vehicles : SumSeq(Column(schedule[v], "boarding")) = 0

\* An itinerary holds the stops of two requests with different numbers of
\* passengers, one inserted between the stops of the other.
C13_Witness ==
    \E v \in Vehicles : \E i, j, k \in 1..Len(schedule[v]) :
        /\ i < j /\ j < k
        /\ schedule[v][i].request_id = schedule[v][k].request_id
        /\ schedule[v][j].request_id # schedule[v][i].request_id
        /\ schedule[v][j].boarding \notin
               {schedule[v][i].boarding, -schedule[v][i].boarding}

\* The cutoff of the window of a request.
Cutoff(request) == request.start_time - (waytime_max + WindowSlack)

\* C14: after every request the planed time never decreases along an
\* itinerary, also from the last stop before the cutoff of the last
\* insertion to the first stop after it.
C14_PlanedNonDecreasing ==
    \A v \in Vehicles : \A k \in 1..Len(schedule[v]) - 1 :
        schedule[v][k].planed <= schedule[v][k + 1].planed

\* The last request was committed behind stops that its cutoff had frozen:
\* its pickup is the first stop planed after the cutoff, and stops of
\* another request planed after the cutoff follow it.
C14_Witness ==
    /\ counter >= 2
    /\ \E v \in Vehicles : \E k \in 2..Len(schedule[v]) - 1 :
          /\ schedule[v][k].request_id = counter
          /\ schedule[v][k].boarding > 0
          /\ schedule[v][k - 1].planed <= Cutoff(request_list[counter])
          /\ schedule[v][k + 1].request_id # counter

\* C15: after every request, two stops that follow each other in an
\* itinerary are planed at least the travel time between their stations
\* plus the standing time apart, whatever the standing time and also when
\* the cutoff of an insertion lies between them.
C15_TravelAndStandingTimeBetweenStops ==
    \A v \in Vehicles : \A k \in 1..Len(schedule[v]) - 1 :
        schedule[v][k + 1].planed - schedule[v][k].planed
            >= waytime[schedule[v][k].station][schedule[v][k + 1].station]
                   + weights.standing_time

\* Stop k of the itinerary of vehicle v is planed the travel time from the
\* stop before it plus the standing time after that stop.
PlanedFromPrevious(v, k) ==
    schedule[v][k].planed
        = schedule[v][k - 1].planed
              + waytime[schedule[v][k - 1].station][schedule[v][k].station]
              + weights.standing_time

\* C16 as stated: after every commit every stop but the first one of the
\* itinerary is planed the travel time plus the standing time after the
\* stop before it.
C16_EveryStopPlanedFromPrevious ==
    \A v \in Vehicles : \A k \in 2..Len(schedule[v]) :
        PlanedFromPrevious(v, k)

\* C16 amended: after every commit every stop but the first one of the
\* itinerary is planed the travel time plus the standing time after the
\* stop before it, or it is a pickup planed at its promised time (the
\* first stop of the window of its insertion, for which the vehicle waits).
C16_PlanedFromPreviousOrWaiting ==
    \A v \in Vehicles : \A k \in 2..Len(schedule[v]) :
        \/ PlanedFromPrevious(v, k)
        \/ /\ schedule[v][k].boarding > 0
           /\ schedule[v][k].planed = schedule[v][k].promissed_time

\* The last commit put its pickup behind a stop of another request and
\* planed it from that stop, later than promised, in an itinerary that also
\* holds a pickup the vehicle waits for.
C16_Witness ==
    \E v \in Vehicles : \E j, k \in 2..Len(schedule[v]) :
        /\ schedule[v][j].request_id = counter
        /\ schedule[v][j].boarding > 0
        /\ schedule[v][j].planed > schedule[v][j].promissed_time
        /\ schedule[v][j - 1].request_id # counter
        /\ ~PlanedFromPrevious(v, k)

\* C17: trivial acceptance.  With a fleet that is not empty, a delay_max that
\* no delay exceeds and seats for the largest request in every vehicle, no
\* request is denied and, when the run is over, every request of the list is
\* committed.
C17_TrivialAcceptance ==
    (/\ Len(seats) > 0
     /\ weights.delay_max >= MinutesPerDay
     /\ \A v \in Vehicles : \A p \in Passangers : seats[v] >= p) =>
        /\ requests_denied_list = <<>>
        /\ \A id \in 1..counter : Committed(id)
        /\ pc # "loop" => counter = len_request_list

\* C18: empty fleet denial.  Without vehicles the denied list holds the
\* requests taken so far in their order, and when the run is over it holds
\* every request of the list, whatever the length of the list.
C18_EmptyFleetDenial ==
    Len(seats) = 0 =>
        /\ requests_denied_list = request_list
        /\ pc # "loop" => Len(requests_denied_list) = len_request_list

\* The place of a candidate in the enumeration: its vehicle, then the
\* position of the pickup of the request, then the position of its dropoff.
PickupLabel(entry, id) ==
    entry.schedule[CHOOSE k \in 1..Len(entry.schedule) :
                      /\ entry.schedule[k].request_id = id
                      /\ entry.schedule[k].boarding > 0].idx
DropoffLabel(entry, id) ==
    entry.schedule[CHOOSE k \in 1..Len(entry.schedule) :
                      /\ entry.schedule[k].request_id = id
                      /\ entry.schedule[k].boarding < 0].idx
EnumeratedBefore(e, f, id) ==
    \/ e.vehicle < f.vehicle
    \/ /\ e.vehicle = f.vehicle
       /\ \/ PickupLabel(e, id) < PickupLabel(f, id)
          \/ /\ PickupLabel(e, id) = PickupLabel(f, id)
             /\ DropoffLabel(e, id) < DropoffLabel(f, id)

\* The step commits candidate k of the surviving candidates F.
CommitsCandidate(F, k) ==
    schedule' =
        [schedule EXCEPT
            ![F[k].vehicle] =
                SelectSeq(schedule[F[k].vehicle],
                          LAMBDA row : row.idx \notin Index(F[k].schedule))
                    \o F[k].schedule]

\* C19: when the set F of candidates that pass the checker is not empty, the
\* step commits exactly one candidate of F; no candidate of F has a greater
\* score, and every other candidate of F with the same score comes later in
\* the enumeration (vehicle, then pickup position, then dropoff position).
C19_Step ==
    counter' = counter + 1 =>
        \A F \in {schedule_dictionary(request_list'[counter'])} :
            \A scores \in {score_list(F)} :
                Len(F) # 0 =>
                    /\ Cardinality({k \in 1..Len(F) :
                                        CommitsCandidate(F, k)}) = 1
                    /\ \A k \in 1..Len(F) :
                          CommitsCandidate(F, k) =>
                              \A j \in 1..Len(F) \ {k} :
                                  /\ ~QLess(scores[k], scores[j])
                                  /\ ~QLess(scores[j], scores[k]) =>
                                        EnumeratedBefore(F[k], F[j], counter')
C19_GreatestScoreFirstEnumerated == [][C19_Step]_vars

\* With two vehicles that both have stops, the last request was committed
\* into the itinerary of the second one, before a stop of an earlier
\* request: candidates of both vehicles and of several insertion pairs were
\* scored.
C19_Witness ==
    /\ Len(seats) = 2
    /\ schedule[1] # <<>>
    /\ \E j, k \in 1..Len(schedule[2]) :
          /\ j < k
          /\ schedule[2][j].request_id = counter
          /\ schedule[2][k].request_id < counter

\* C20: Scenario D.  When pooling_factor is the only weight that is not 0,
\* no candidate that passes the checker has a greater pooling_rate than the
\* committed one; when distance_factor is the only one, none has a smaller
\* added distance (its distance minus the distance before the insertion).
C20_Step ==
    counter' = counter + 1 =>
        \A F \in {schedule_dictionary(request_list'[counter'])} :
            \A rates \in {pooling_list(F)} :
                \A added \in {distance_list(F)} :
                    \A k \in 1..Len(F) :
                        CommitsCandidate(F, k) =>
                            /\ (/\ weights.pooling_factor # 0
                                /\ weights.delay_factor = 0
                                /\ weights.balance_factor = 0
                                /\ weights.distance_factor = 0) =>
                                  \A j \in 1..Len(F) :
                                      ~QLess(rates[k], rates[j])
                            /\ (/\ weights.distance_factor # 0
                                /\ weights.delay_factor = 0
                                /\ weights.balance_factor = 0
                                /\ weights.pooling_factor = 0) =>
                                  \A j \in 1..Len(F) : added[k] <= added[j]
C20_ScenarioD == [][C20_Step]_vars

\* The loop is about to take a request.
TakesRequest == pc = "loop" /\ len_request_list - 1 # 0

\* An entry with its schedule walked once more by the checker.
Walked(entry) == [entry EXCEPT !.schedule = WalkSchedule(entry.schedule)]

\* C21: idempotence of the checker.  For every candidate enumerated for a
\* request, the checker run on the candidate it already processed leaves the
\* planed time, occupation and delay of every stop as the first run left
\* them and gives the same verdict; the dictionary it returns is returned
\* unchanged by a second run.
C21_CheckerIdempotent ==
    TakesRequest =>
        \A request \in RequestInputs :
            \A D \in {creating_possible_schedules(request)} :
                /\ \A k \in 1..Len(D) :
                      \A once \in {Walked(D[k])} :
                          \A twice \in {Walked(once)} :
                              /\ twice.schedule = once.schedule
                              /\ Deleted(twice) <=> Deleted(once)
                /\ \A F \in {check_occupation_delay(D)} :
                      check_occupation_delay(F) = F

\* A request is about to be taken for which the enumeration holds a
\* candidate of four stops or more that the walk replans and accepts, and
\* another one that it rejects.
C21_Witness ==
    /\ TakesRequest
    /\ \E request \in RequestInputs :
          \E D \in {creating_possible_schedules(request)} :
              \E j, k \in 1..Len(D) :
                  /\ Len(D[j].schedule) >= 4
                  /\ Walked(D[j]).schedule # D[j].schedule
                  /\ ~Deleted(Walked(D[j]))
                  /\ Deleted(Walked(D[k]))

\* The candidates of vehicle v and of the vehicles listed after it, each
\* vehicle's own candidates one after the other.
RECURSIVE OwnCandidatesFrom(_, _)
OwnCandidatesFrom(v, request) ==
    IF v > Len(seats)
    THEN <<>>
    ELSE VehicleEntries(v, request).entries \o OwnCandidatesFrom(v + 1, request)

\* C23: a vehicle whose window holds stops but no relevant one adds no
\* candidate and the enumeration goes on with the vehicles after it: the
\* candidates enumerated for a request are the candidates of every vehicle
\* of the list, in the order of the list.
C23_CandidatesOfEveryVehicle ==
    TakesRequest =>
        \A request \in RequestInputs :
            creating_possible_schedules(request) = OwnCandidatesFrom(1, request)

\* Stop k of the frame is a pickup and stop k + 1 a dropoff at its station.
PickupThenDropoff(frame, k) ==
    /\ frame[k].station = frame[k + 1].station
    /\ frame[k].boarding > 0
    /\ frame[k + 1].boarding < 0

\* C24: the checker rejects every candidate in which some stop k is a
\* pickup and stop k + 1 a dropoff at the same station, for every k of the
\* candidate, its first stop included.
C24_SameStationRejected ==
    TakesRequest =>
        \A request \in RequestInputs :
            \A D \in {creating_possible_schedules(request)} :
                \A j \in 1..Len(D) :
                    \A entry \in {Walked(D[j])} :
                        (\E k \in 1..Len(entry.schedule) - 1 :
                            PickupThenDropoff(entry.schedule, k))
                            => Deleted(entry)

\* C25: for every stop of a checked candidate the delay is the greater of 0
\* and the whole minutes from its promised time to its planed time: a stop
\* planed before its promised time has delay 0, and a candidate is not
\* rejected for arriving early.
C25_DelayClamped ==
    TakesRequest =>
        \A request \in RequestInputs :
            \A D \in {creating_possible_schedules(request)} :
                \A j \in 1..Len(D) :
                    \A entry \in {Walked(D[j])} :
                        \A k \in 1..Len(entry.schedule) :
                            entry.schedule[k].delay
                                = Max({0, entry.schedule[k].planed
                                           - entry.schedule[k].promissed_time})

\* The candidates that the enumeration for the request holds for vehicle v.
CandidatesOf(v, request) ==
    SelectSeq(creating_possible_schedules(request),
              LAMBDA entry : entry.vehicle = v)

\* C26: for a vehicle with no stop planed after the cutoff of the request
\* (an empty itinerary included) the enumeration holds exactly one
\* candidate: the pickup at the origin with the passengers boarding,
\* promised and planed at the start time of the request, then the dropoff
\* at the destination with as many leaving, promised the direct travel time
\* plus the standing time later; the two stops take the places directly
\* after the last stop of the vehicle.
C26_EmptyWindowOneCandidate ==
    TakesRequest =>
        \A request \in RequestInputs : \A v \in Vehicles :
            (\A k \in 1..Len(schedule[v]) :
                ~(schedule[v][k].planed > Cutoff(request))) =>
                \A own \in {CandidatesOf(v, request)} :
                    /\ Len(own) = 1
                    /\ Len(own[1].schedule) = 2
                    /\ Stops(own[1].schedule)
                          = <<<<request.start, request.passangers,
                                request.start_time, request.request_id>>,
                              <<request.destination, -request.passangers,
                                request.start_time
                                    + waytime[request.start][request.destination]
                                    + weights.standing_time,
                                request.request_id>>>>
                    /\ own[1].schedule[1].planed = request.start_time
                    /\ Index(own[1].schedule)
                          = {Max(Index(schedule[v]) \cup {0}) + 1,
                             Max(Index(schedule[v]) \cup {0}) + 2}
                    /\ own[1].schedule[1].idx < own[1].schedule[2].idx

\* The positions in the window of vehicle v of its relevant stops: those
\* promised before the start time of the request plus its direct travel
\* time plus delay_max.
RelevantPositions(v, request) ==
    {k \in 1..Len(RelevantSchedule(v, request)) :
        RelevantSchedule(v, request)[k].promissed_time
            < request.start_time + request.waytime + weights.delay_max}

\* The stops W with the pickup of the request after a of them and its
\* dropoff after b of them.
WithPickupAndDropoff(W, request, a, b) ==
    SubSeq(W, 1, a)
        \o <<<<request.start, request.passangers, request.start_time,
               request.request_id>>>>
        \o SubSeq(W, a + 1, b)
        \o <<<<request.destination, -request.passangers,
               request.start_time + request.waytime + weights.standing_time,
               request.request_id>>>>
        \o SubSeq(W, b + 1, Len(W))

\* The pairs <<a, b>> with a <= b <= m from <<a, b>> on: a ascending, then
\* b ascending.
RECURSIVE PairsFrom(_, _, _)
PairsFrom(a, b, m) ==
    IF a > m
    THEN <<>>
    ELSE IF b > m
         THEN PairsFrom(a + 1, a + 1, m)
         ELSE <<<<a, b>>>> \o PairsFrom(a, b + 1, m)

\* C27: for a vehicle whose window holds n stops and whose last relevant
\* stop is stop m of the window, the enumeration holds for the vehicle
\* exactly (m+1)(m+2)/2 candidates of n + 2 stops, all different: the window
\* in its order with the pickup after a stops and the dropoff after b stops
\* (behind the pickup when a = b), for 0 <= a <= b <= m, in the order of a
\* ascending, then b ascending.
C27_NonEmptyWindowCandidates ==
    TakesRequest =>
        \A request \in RequestInputs : \A v \in Vehicles :
            \A relevant \in {RelevantPositions(v, request)} :
                relevant # {} =>
                    \A own \in {CandidatesOf(v, request)} :
                      \A m \in {Max(relevant)} :
                        \A pairs \in {PairsFrom(0, 0, m)} :
                          \A W \in {Stops(RelevantSchedule(v, request))} :
                            /\ Len(own) = ((m + 1) * (m + 2)) \div 2
                            /\ Len(own) = Len(pairs)
                            /\ \A k \in 1..Len(own) :
                                  /\ Len(own[k].schedule) = Len(W) + 2
                                  /\ Stops(own[k].schedule)
                                        = WithPickupAndDropoff(
                                              W, request,
                                              pairs[k][1], pairs[k][2])
                            /\ \A j, k \in 1..Len(own) :
                                  j # k => Stops(own[j].schedule)
                                              # Stops(own[k].schedule)

\* The step commits the request it takes to vehicle v.
CommitsTo(v) ==
    /\ counter' = counter + 1
    /\ \E k \in 1..Len(schedule'[v]) : schedule'[v][k].request_id = counter'

\* C28: frozen history.  A commit leaves every stop of the winning vehicle
\* that is planed at or before the cutoff of the request at its position
\* and with every field as it was, and no stop of the request stands before
\* such a stop.
C28_Step ==
    \A v \in Vehicles :
        CommitsTo(v) =>
            \A k \in 1..Len(schedule[v]) :
                schedule[v][k].planed <= Cutoff(request_list'[counter']) =>
                    /\ k <= Len(schedule'[v])
                    /\ schedule'[v][k] = schedule[v][k]
                    /\ \A j \in 1..k : schedule'[v][j].request_id # counter'
C28_FrozenHistory == [][C28_Step]_vars

\* The last request was committed to a vehicle that holds a stop planed at
\* or before its cutoff and a stop of an earlier request planed after it.
C28_Witness ==
    /\ counter >= 2
    /\ \E v \in Vehicles : \E i, j, k \in 1..Len(schedule[v]) :
          /\ schedule[v][i].planed <= Cutoff(request_list[counter])
          /\ schedule[v][j].request_id = counter
          /\ schedule[v][k].request_id < counter
          /\ schedule[v][k].planed > Cutoff(request_list[counter])
          /\ schedule[v][k].promissed_time < request_list[counter].start_time

\* C29: a commit changes the itinerary of the winning vehicle only: the
\* itinerary of every other vehicle and the denied list are after the
\* commit what they were before it, and no request changes the itinerary
\* of more than one vehicle.
C29_Step ==
    counter' = counter + 1 =>
        /\ Cardinality({v \in Vehicles : schedule'[v] # schedule[v]}) <= 1
        /\ \A v \in Vehicles :
              CommitsTo(v) =>
                  /\ \A u \in Vehicles \ {v} : schedule'[u] = schedule[u]
                  /\ requests_denied_list' = requests_denied_list
C29_OnlyWinningVehicleChanges == [][C29_Step]_vars

\* Both vehicles of a fleet of two hold stops and the last request was
\* committed to the first one, which held stops before.
C29_Witness ==
    /\ Len(seats) = 2
    /\ schedule[2] # <<>>
    /\ \E k \in 1..Len(schedule[1]) : schedule[1][k].request_id = counter
    /\ \E k \in 1..Len(schedule[1]) : schedule[1][k].request_id < counter

\* C30: enumeration, checking and scoring leave the committed itineraries
\* alone.  A step changes no itinerary but that of the vehicle it commits
\* to, and of that one the stops before the window stay while the window
\* is replaced by exactly one candidate enumerated for the vehicle, as the
\* walk of the checker over that candidate alone leaves it.
C30_Step ==
    counter' = counter + 1 =>
        \A request \in {request_list'[counter']} :
            \A D \in {creating_possible_schedules(request)} :
                \A v \in Vehicles :
                    IF CommitsTo(v)
                    THEN \E k \in 1..Len(D) :
                            /\ D[k].vehicle = v
                            /\ ~Deleted(Walked(D[k]))
                            /\ schedule'[v]
                                 = SubSeq(schedule[v], 1,
                                          Len(schedule[v])
                                            - Len(RelevantSchedule(v, request)))
                                      \o WalkSchedule(D[k].schedule)
                    ELSE schedule'[v] = schedule[v]
C30_CommitIsCheckedCandidate == [][C30_Step]_vars

\* The last request was committed in front of a stop of an earlier request
\* that the walk planed later than promised.
C30_Witness ==
    \E v \in Vehicles : \E j, k \in 1..Len(schedule[v]) :
        /\ j < k
        /\ schedule[v][j].request_id = counter
        /\ schedule[v][k].request_id < counter
        /\ schedule[v][k].delay > 0
        /\ schedule[v][k].planed
               = schedule[v][k].promissed_time + schedule[v][k].delay

\* C31: distance normalisation.  For every set F of candidates that pass the
\* checker, with M the greatest added distance in F, the distance score of
\* a candidate is 1 - added distance / M when M > 0 and 1 for every
\* candidate when M = 0 or M < 0, whatever the distance table.
C31_DistanceScore ==
    TakesRequest =>
        \A request \in RequestInputs :
            \A F \in {schedule_dictionary(request)} :
                Len(F) # 0 =>
                    \A added \in {distance_list(F)} :
                        \A M \in {SeqMax(added)} :
                            \A k \in 1..Len(F) :
                                OneMinusShare(added[k], M)
                                    = IF M > 0
                                      THEN Quot(M - added[k], M)
                                      ELSE Quot(1, 1)

\* C32: the walk of the checker.  In every candidate the checker has
\* processed, the first stop has the planed time and the occupation it was
\* given, and every later stop is planed the travel time from the station
\* of the stop before it plus the standing time after that stop and has the
\* occupation of the stop before it plus its own boarding.
C32_FeasibilityWalk ==
    TakesRequest =>
        \A request \in RequestInputs :
            \A D \in {creating_possible_schedules(request)} :
                \A j \in 1..Len(D) :
                    \A walked \in {WalkSchedule(D[j].schedule)} :
                        /\ Len(walked) = Len(D[j].schedule)
                        /\ walked[1].planed = D[j].schedule[1].planed
                        /\ walked[1].occupation = D[j].schedule[1].occupation
                        /\ \A k \in 2..Len(walked) :
                              /\ walked[k].planed
                                    = walked[k - 1].planed
                                        + waytime[walked[k - 1].station]
                                                 [walked[k].station]
                                        + weights.standing_time
                              /\ walked[k].occupation
                                    = walked[k - 1].occupation
                                        + walked[k].boarding

\* A request is about to be taken for which a candidate starts with a stop
\* of an earlier request that has passengers on board, and the walk plans
\* a later stop of an earlier request at another time than it had.
C32_Witness ==
    /\ TakesRequest
    /\ \E request \in RequestInputs :
          \E D \in {creating_possible_schedules(request)} :
              \E j \in 1..Len(D) : \E k \in 2..Len(D[j].schedule) :
                  /\ D[j].schedule[1].request_id < request.request_id
                  /\ D[j].schedule[1].occupation > 0
                  /\ D[j].schedule[k].request_id < request.request_id
                  /\ WalkSchedule(D[j].schedule)[k].planed
                         # D[j].schedule[k].planed

\* C33: after every request the first stop of every itinerary that is not
\* empty is a pickup planed at its promised time, with delay 0, also when a
\* later request was inserted in front of the stop that was first before.
C33_FirstStopAtPromisedTime ==
    \A v \in Vehicles :
        schedule[v] # <<>> =>
            /\ schedule[v][1].boarding > 0
            /\ schedule[v][1].planed = schedule[v][1].promissed_time
            /\ schedule[v][1].delay = 0

\* The last request was committed with its pickup in front of the stops of
\* an earlier request.
C33_Witness ==
    /\ counter >= 2
    /\ \E v \in Vehicles :
          /\ Len(schedule[v]) >= 4
          /\ schedule[v][1].request_id = counter
          /\ schedule[v][2].request_id < counter

\* C34: requests are decided one at a time in the order of the list.  After
\* every step each request taken so far is committed or denied and no
\* itinerary holds a stop of a request not yet taken; the denied list is
\* the denied requests of the list in the order of the list; a step takes
\* the next request of the list and leaves the denied list as it was or
\* longer by that request at its end.
C34_State ==
    /\ \A id \in 1..counter : Committed(id) \/ Denied(id)
    /\ \A v \in Vehicles : \A k \in 1..Len(schedule[v]) :
          schedule[v][k].request_id \in 1..counter
    /\ requests_denied_list
          = SelectSeq(request_list, LAMBDA r : Denied(r.request_id))
C34_Step ==
    /\ counter' \in {counter, counter + 1}
    /\ counter' = counter + 1 =>
          /\ SubSeq(request_list', 1, counter) = request_list
          /\ request_list'[counter'].request_id = counter'
          /\ requests_denied_list' \in
                {requests_denied_list,
                 Append(requests_denied_list, request_list'[counter'])}
    /\ counter' = counter => /\ requests_denied_list' = requests_denied_list
                             /\ schedule' = schedule
C34_OneAtATimeInInputOrder == [](C34_State) /\ [][C34_Step]_vars

\* The first and the third request of the list were denied and the second
\* one was committed.
C34_Witness ==
    /\ counter = 3
    /\ Denied(1) /\ Committed(2) /\ Denied(3)
    /\ Len(requests_denied_list) = 2

\* The stops of request number id in the itinerary of vehicle v.
StopsOf(v, id) == Stops(RowsOf(v, id))

\* C35: after every request each committed request has exactly two stops in
\* the whole fleet, both in the itinerary of one vehicle: a pickup at its
\* origin with its passengers boarding, promised at its start time, and a
\* dropoff at its destination with as many leaving, promised the direct
\* travel time plus the standing time later; the length of every itinerary
\* is twice the number of requests committed to it.
C35_TwoStopsPerCommittedRequest ==
    /\ \A id \in 1..counter :
          Committed(id) =>
              /\ Cardinality({v \in Vehicles : Len(RowsOf(v, id)) > 0}) = 1
              /\ \A v \in Vehicles :
                    Len(RowsOf(v, id)) > 0 =>
                        \A r \in {request_list[id]} :
                          \A pickup \in
                              {<<r.start, r.passangers, r.start_time, id>>} :
                            \A dropoff \in
                                {<<r.destination, -r.passangers,
                                   r.start_time + waytime[r.start][r.destination]
                                       + weights.standing_time, id>>} :
                              StopsOf(v, id) \in {<<pickup, dropoff>>,
                                                  <<dropoff, pickup>>}
    /\ \A v \in Vehicles :
          Len(schedule[v])
              = 2 * Cardinality({id \in 1..counter : Len(RowsOf(v, id)) > 0})

\* A fleet of two vehicles holds three committed requests, two of them in
\* one itinerary.
C35_Witness ==
    /\ counter = 3
    /\ \A id \in 1..3 : Committed(id)
    /\ \E v, u \in Vehicles :
          /\ v # u
          /\ Len(schedule[v]) = 4
          /\ Len(schedule[u]) = 2

\* C36: when the loop has ended, the status of a request of the list is
\* False if the request is in the denied list and True if it was
\* committed.
C36_StatusFalseIffDenied ==
    pc = "done" =>
        /\ \A k \in 1..Len(request_list) :
              request_list[k].status <=> ~Denied(request_list[k].request_id)
        /\ \A k \in 1..Len(requests_denied_list) :
              ~requests_denied_list[k].status

====
